---------------------------- MODULE Spec2Model ----------------------------
(***************************************************************************)
(* Model of the two batch scripts of Scripts3_3_1:                         *)
(*   Create2Dpoints_SWL.py  (static water level points, "SWL")             *)
(*   CreateConspys.py       (well construction sticks, "CONSPY")           *)
(*                                                                         *)
(* Both scripts run top to bottom.  The model follows one run: pc is the   *)
(* section of the script about to execute, the input files are fixed at    *)
(* the start, and every dataset the run creates in the output workspace is *)
(* a variable.                                                             *)
(*                                                                         *)
(* Numbers.  Coordinates, lengths and distances are double precision in    *)
(* the code.  Here they are fixed point: the integer k stands for k/Scale  *)
(* metres.  The lines are axis parallel and the wells are chosen so that   *)
(* every distance the run computes is a whole number of such units, hence  *)
(* the arithmetic of the model is exact.  Values of that form are binary   *)
(* fractions, so storing them in a FLOAT (32 bit) field such as            *)
(* OnLine_DIST, distance or pct_dist does not change them.  Quotients      *)
(* (x_coord_2d, pct_dist) are exact rationals [n, d] in lowest terms.      *)
(***************************************************************************)
EXTENDS Integers, Sequences, FiniteSets, TLC

(***************************************************************************)
(* Bounds of the model                                                     *)
(***************************************************************************)
\* fixed point units per metre
Scale == 2
\* wells lie within this many units around the lines
Margin == 3
\* length of a segment of a generated cross-section line, in units
SegLen == 4

(***************************************************************************)
(* Arithmetic                                                              *)
(***************************************************************************)
Abs(a) == IF a < 0 THEN -a ELSE a
Sgn(a) == IF a < 0 THEN -1 ELSE IF a > 0 THEN 1 ELSE 0
Min2(a, b) == IF a <= b THEN a ELSE b
Max2(a, b) == IF a >= b THEN a ELSE b

\* Euclid's algorithm; the remainder is bound as a value at each step
RECURSIVE GCD(_, _)
GCD(a, b) == IF b = 0 THEN a ELSE CHOOSE g \in {GCD(b, r) : r \in {a % b}} : TRUE

\* the rational n/d (d # 0) in lowest terms with a positive denominator
Rat(n, d) ==
    CHOOSE q \in {[n |-> Sgn(dd) * (nn \div g), d |-> Sgn(dd) * (dd \div g)] :
                     nn \in {n}, dd \in {d}, g \in {GCD(Abs(n), Abs(d))}} : TRUE

RatOfInt(k) == Rat(k, 1)
\* Python's a / b and a * b on numbers
RatDiv(a, b) == Rat(a.n * b.d, a.d * b.n)
RatMul(a, b) == Rat(a.n * b.n, a.d * b.d)

\* a fixed point length as a number of metres
Metres(fx) == Rat(fx, Scale)
\* a whole number of metres as a fixed point length
Fx(m) == m * Scale

\* Python's int(): truncation toward zero, of a rational
PyInt(r) == IF r.n >= 0 THEN r.n \div r.d ELSE -((-r.n) \div r.d)

\* the literal 0.3048 (metres per foot)
FootInMetres == Rat(3048, 10000)
\* the literal 200 of the percent-distance formula
PctFactor == 200

(***************************************************************************)
(* Planar geometry of the geoprocessing library, on axis parallel lines.   *)
(* A point is <<x, y>>; a line is its sequence of vertices (part 0).       *)
(***************************************************************************)
Add(p, q) == <<p[1] + q[1], p[2] + q[2]>>
Sub(p, q) == <<p[1] - q[1], p[2] - q[2]>>
Times(k, p) == <<k * p[1], k * p[2]>>
Dot(p, q) == p[1] * q[1] + p[2] * q[2]
DistSq(p, q) == Dot(Sub(p, q), Sub(p, q))

IsSquare(n) == \E r \in 0..n : r * r = n
\* exact square root; the inputs are chosen so that it exists
Sqrt(n) == CHOOSE r \in 0..n : r * r = n

\* PointGeometry.angleAndDistanceTo(other, "PLANAR"): the angle is kept as
\* the unit vector of the direction from p to q, the distance as a length
AngleTo(p, q) == <<Sgn(q[1] - p[1]), Sgn(q[2] - p[2])>>
DistanceTo(p, q) == Sqrt(DistSq(p, q))

\* PointGeometry.pointFromAngleAndDistance(angle, distance, "PLANAR")
pointFromAngleAndDistance(p, angle, distance) == Add(p, Times(distance, angle))

\* length of a polyline
RECURSIVE PolylineLength(_)
PolylineLength(verts) ==
    IF Len(verts) < 2 THEN 0
    ELSE DistanceTo(verts[1], verts[2]) + PolylineLength(Tail(verts))

Clamp(v, a, b) == Max2(Min2(a, b), Min2(v, Max2(a, b)))

\* the point of the segment a-b closest to q
ClosestOnSegment(q, a, b) ==
    IF a[2] = b[2] THEN <<Clamp(q[1], a[1], b[1]), a[2]>>
                   ELSE <<a[1], Clamp(q[2], a[2], b[2])>>

OnSegment(p, a, b) == ClosestOnSegment(p, a, b) = p

SegmentsOf(verts) == 1..(Len(verts) - 1)

\* Near analysis of one point against one polyline: squared distance to the
\* line, and the points of the line at that distance (more than one on a tie)
NearDistSq(q, verts) ==
    LET ds == {DistSq(q, ClosestOnSegment(q, verts[k], verts[k + 1])) : k \in SegmentsOf(verts)}
    IN  CHOOSE d \in ds : \A e \in ds : d <= e

\* variant: the nearest vertex of the line instead of its nearest point
NearestVertices(q, verts) ==
    {verts[k] : k \in {j \in DOMAIN verts :
                          \A h \in DOMAIN verts : DistSq(q, verts[j]) <= DistSq(q, verts[h])}}

NearestPoints(q, verts) ==
    {p \in {ClosestOnSegment(q, verts[k], verts[k + 1]) : k \in SegmentsOf(verts)} :
        DistSq(q, p) = NearDistSq(q, verts)}

\* Polyline.measureOnLine(point): length along the line from its first
\* vertex to the point, taken on the first segment the point lies on
measureOnLine(verts, p) ==
    LET k == CHOOSE j \in SegmentsOf(verts) :
                 /\ OnSegment(p, verts[j], verts[j + 1])
                 /\ \A h \in 1..(j - 1) : ~OnSegment(p, verts[h], verts[h + 1])
    IN  PolylineLength(SubSeq(verts, 1, k)) + DistanceTo(verts[k], p)

(***************************************************************************)
(* Section 12 (SWL) / 13 (CONSPY): the geometry written to xsln_temp for   *)
(* one cross-section line, its first and last vertex moved outward.        *)
(***************************************************************************)
\* variant: both ends moved outward by twice the buffer distance
ExtendLineTwice(verts, buf) ==
    LET n == Len(verts)
        new_beg == pointFromAngleAndDistance(verts[1], AngleTo(verts[2], verts[1]), 2 * Fx(buf))
        new_end == pointFromAngleAndDistance(verts[n], AngleTo(verts[n - 1], verts[n]), 2 * Fx(buf))
    IN  [[verts EXCEPT ![1] = new_beg] EXCEPT ![n] = new_end]

\* variant: only the first vertex is moved
ExtendLineBegOnly(verts, buf) ==
    [verts EXCEPT ![1] = pointFromAngleAndDistance(verts[1], AngleTo(verts[2], verts[1]), Fx(buf))]

ExtendLine(verts, buf) ==
    LET beg_pt    == verts[1]
        beg_pt2   == verts[2]
        beg_angle == AngleTo(beg_pt2, beg_pt)
        end_pt    == verts[Len(verts)]
        end_pt2   == verts[Len(verts) - 1]
        end_angle == AngleTo(end_pt2, end_pt)
        new_beg   == pointFromAngleAndDistance(beg_pt, beg_angle, Fx(buf))
        new_end   == pointFromAngleAndDistance(end_pt, end_angle, Fx(buf))
        geompointlist == [verts EXCEPT ![1] = new_beg]
    IN  [geompointlist EXCEPT ![Len(verts)] = new_end]

(***************************************************************************)
(* Inputs of a run.  A nullable field holds NULL or Some(v); the value is  *)
(* carried in that form wherever the code passes it on unchanged.          *)
(***************************************************************************)
NULL == {}
Some(v) == {v}

Origin == <<0, 0>>
Dirs == {<<1, 0>>, <<0, 1>>, <<-1, 0>>, <<0, -1>>}
East == <<1, 0>>
North == <<0, 1>>

\* cross-section lines of one and of two segments, without reversal
Line2(d) == <<Origin, Times(SegLen, d)>>
Line3(d, e) == <<Origin, Times(SegLen, d), Add(Times(SegLen, d), Times(SegLen, e))>>
LineShapes == {Line2(d) : d \in Dirs}
                \cup {Line3(de[1], de[2]) : de \in {p \in {East, North} \X Dirs : p[2] # Times(-1, p[1])}}

XsLine(id, verts) == [et_id |-> id, shape |-> verts]

\* the grid points within Margin of the bounding box of the lines
Box(xsln) ==
    LET vs == UNION {{xsln[k].shape[j] : j \in DOMAIN xsln[k].shape} : k \in DOMAIN xsln}
        xs == {v[1] : v \in vs}
        ys == {v[2] : v \in vs}
        lo(S) == CHOOSE a \in S : \A b \in S : a <= b
        hi(S) == CHOOSE a \in S : \A b \in S : a >= b
    IN  ((lo(xs) - Margin)..(hi(xs) + Margin)) \X ((lo(ys) - Margin)..(hi(ys) + Margin))

\* a well position whose distance to every line it can be assigned to is exact
Fits(q, et, xsln, buf) ==
    \A k \in DOMAIN xsln :
        xsln[k].et_id = et => IsSquare(NearDistSq(q, ExtendLine(xsln[k].shape, buf)))

Well(id, et, q, elevation, meas_elev, measuremt) ==
    [wellid |-> id, et_id |-> et, xy |-> q,
     elevation |-> elevation, meas_elev |-> meas_elev, measuremt |-> measuremt]
PlainWell(id, et, q) == Well(id, et, q, Some(30), Some(20), Some(10))

Conspy(id, elev_top, elev_bot) == [wellid |-> id, elev_top |-> elev_top, elev_bot |-> elev_bot]
PlainConspy(id) == Conspy(id, Some(25), Some(15))

Scripts == {"SWL", "CONSPY"}

Input(script, buf, ve, xsln, wwpt, conspy) ==
    [script |-> script, buffer_dist |-> buf, vertical_exaggeration |-> ve,
     xsln |-> xsln, wwpt |-> wwpt, conspy |-> IF script = "SWL" THEN <<>> ELSE conspy]

\* one line of any shape, one well anywhere around it
OneLineInputs ==
    UNION {{Input(sc, buf, 2, xsln, <<PlainWell(1, "A", q)>>, <<PlainConspy(1)>>) :
              sc \in Scripts, buf \in {1, 2},
              q \in {r \in Box(xsln) : Fits(r, "A", xsln, 1) /\ Fits(r, "A", xsln, 2)}} :
           xsln \in {<<XsLine("A", sh)>> : sh \in LineShapes}}

\* two lines from the same start, with different or equal IDs, one well
TwoLineFiles ==
    {<<XsLine("A", Line2(East)), XsLine(id, Line2(d))>> : id \in {"A", "B"}, d \in Dirs}
TwoLineInputs ==
    UNION {{Input(sc, 1, 2, xsln, <<PlainWell(1, et, q)>>, <<PlainConspy(1)>>) :
              sc \in Scripts, et \in {"A", "B"},
              q \in {r \in Box(xsln) : Fits(r, "A", xsln, 1) /\ Fits(r, "B", xsln, 1)}} :
           xsln \in TwoLineFiles}

\* one straight line, two wells along it
TwoWellInputs ==
    LET xsln == <<XsLine("A", Line2(East))>>
        near == {r \in Box(xsln) : r[2] \in {0, 1} /\ Fits(r, "A", xsln, 1)}
    IN  {Input(sc, 1, 2, xsln, <<PlainWell(1, "A", q1), PlainWell(2, "A", q2)>>,
               <<PlainConspy(1), PlainConspy(2)>>) :
            sc \in Scripts, q1 \in near, q2 \in near}

\* invalid parameters and empty inputs
QcInputs ==
    {Input(sc, buf, ve, xsln, wwpt, conspy) :
        sc \in Scripts, buf \in {-1, 0, 1}, ve \in {-1, 0, 1},
        xsln \in {<<>>, <<XsLine("A", Line2(East))>>},
        wwpt \in {<<>>, <<PlainWell(1, "A", <<1, 1>>)>>},
        conspy \in {<<>>, <<PlainConspy(1)>>}}

\* null field values, IDs that do not match, IDs that occur twice
OneOrTwo(S, T) == {<<a>> : a \in S} \cup {<<a, b>> : a \in S, b \in T}
Nullable(v) == {NULL, Some(v)}
MatchFiles ==
    {<<XsLine("A", Line2(East))>>,
     <<XsLine("A", Line2(East)), XsLine("B", Line2(North))>>,
     <<XsLine("A", Line2(East)), XsLine("A", Line2(North))>>}
XsIds == {"A", "B", "C"}

SwlNullInputs ==
    {Input("SWL", 1, 3, xsln, wwpt, <<>>) :
        xsln \in MatchFiles,
        wwpt \in OneOrTwo({Well(1, et, <<1, 1>>, el, me, mt) :
                              et \in XsIds, el \in Nullable(30), me \in Nullable(20),
                              mt \in Nullable(10)},
                          {Well(id, et, <<3, -1>>, el, me, Some(10)) :
                              id \in {1, 2}, et \in XsIds, el \in Nullable(30),
                              me \in Nullable(20)})}

ConspyNullInputs ==
    {Input("CONSPY", 1, 3, xsln, wwpt, conspy) :
        xsln \in MatchFiles \ {<<XsLine("A", Line2(East))>>},
        wwpt \in OneOrTwo({PlainWell(1, et, <<1, 1>>) : et \in XsIds},
                          {PlainWell(id, et, <<3, -1>>) : id \in {1, 2}, et \in XsIds}),
        conspy \in OneOrTwo({Conspy(id, top, bot) :
                                id \in {1, 3}, top \in Nullable(25), bot \in Nullable(15)},
                            {Conspy(id, top, bot) :
                                id \in {1, 3}, top \in Nullable(25), bot \in Nullable(15)})}

\* three construction records: complete, with a null elevation, or of a well
\* that is not in the well file; well 1 may be assigned to two cross sections
ThreeRecordInputs ==
    {Input("CONSPY", 1, 3, <<XsLine("A", Line2(East)), XsLine("B", Line2(North))>>,
           <<PlainWell(1, "A", <<1, 1>>), PlainWell(id, "B", <<3, -1>>)>>, <<a, b, c>>) :
        id \in {1, 2},
        a \in {PlainConspy(1), PlainConspy(3), Conspy(1, NULL, Some(15))},
        b \in {PlainConspy(1), PlainConspy(3), Conspy(2, Some(25), NULL)},
        c \in {PlainConspy(1), PlainConspy(2), PlainConspy(3), Conspy(1, NULL, Some(15))}}

Inputs == OneLineInputs \cup TwoLineInputs \cup TwoWellInputs \cup QcInputs
            \cup SwlNullInputs \cup ConspyNullInputs \cup ThreeRecordInputs

(***************************************************************************)
(* State of a run                                                          *)
(***************************************************************************)
VARIABLES
    script,                 \* which of the two scripts runs
    buffer_dist,            \* parameter, whole metres (int(...))
    vertical_exaggeration,  \* parameter (int(...))
    xsln_file_orig,         \* cross-section line file: sequence of lines
    wwpt_file_orig,         \* well point file: sequence of wells
    conspy_table,           \* construction table: sequence of records (CONSPY)
    pc,                     \* section of the script about to run
    i,                      \* position of the cursor of the running loop
    gdb,                    \* output workspace: dataset name -> rows
    nomatch_list,           \* CONSPY section 17
    well_vars,              \* CONSPY section 17: real_x .. vert_ex as last assigned
    messages                \* kinds of messages printed so far

params == <<script, buffer_dist, vertical_exaggeration,
            xsln_file_orig, wwpt_file_orig, conspy_table>>
vars == <<script, buffer_dist, vertical_exaggeration, xsln_file_orig,
          wwpt_file_orig, conspy_table, pc, i, gdb, nomatch_list, well_vars, messages>>

\* dataset names in the output workspace
pointfile == "swl_2d_xsecview"
pointfile_copy == "swl_2d_xsecview_prj"
polylinefile_3d == "conspys_3d"
polylinefile_2d == "conspys_2d_line"
wwpt_by_xs_fd == "wwpt_by_xs"
wwpt_file_temp == "wwpt_temp"
xsln_temp == "xsln_temp"
wwpt_merge == "wwpt_merge"
temp_polygon_file == "conspys_2d_poly_temp"
polygon_file == "conspys_2d_poly"
polygon_file_copy1 == "conspy_2d_poly_prj"
wwpt_by_xs_file(et_id) == "wwpt_" \o et_id

Exists(name) == name \in DOMAIN gdb
\* create or overwrite (arcpy.env.overwriteOutput = True)
Put(g, name, rows) == (name :> rows) @@ g
\* arcpy.management.Delete
Delete(g, name) == [n \in DOMAIN g \ {name} |-> g[n]]
EmptyTable == <<>>

Init ==
    /\ \E in \in Inputs :
        /\ script = in.script
        /\ buffer_dist = in.buffer_dist
        /\ vertical_exaggeration = in.vertical_exaggeration
        /\ xsln_file_orig = in.xsln
        /\ wwpt_file_orig = in.wwpt
        /\ conspy_table = in.conspy
    /\ pc = "qc"
    /\ i = 0
    /\ gdb = <<>>
    /\ nomatch_list = <<>>
    /\ well_vars = <<>>
    /\ messages = {}

(***************************************************************************)
(* Sections 5-6: data QC.  SystemExit on an invalid parameter or an empty  *)
(* input, checked in the order of the script.                              *)
(***************************************************************************)
\* variant: the row count of the cross-section line file is not checked
QcPassesNoLineCount ==
    /\ ~(buffer_dist <= 0)
    /\ ~(vertical_exaggeration <= 0)
    /\ script = "CONSPY" => ~(Len(conspy_table) = 0)
    /\ ~(Len(wwpt_file_orig) = 0)

QcPasses ==
    /\ ~(buffer_dist <= 0)
    /\ ~(vertical_exaggeration <= 0)
    /\ script = "CONSPY" => ~(Len(conspy_table) = 0)
    /\ ~(Len(wwpt_file_orig) = 0)
    /\ ~(Len(xsln_file_orig) = 0)

DataQC ==
    /\ pc = "qc"
    /\ pc' = IF QcPasses THEN "match" ELSE "exit"
    /\ messages' = IF QcPasses THEN messages ELSE messages \cup {"error"}
    /\ UNCHANGED <<params, i, gdb, nomatch_list, well_vars>>

(***************************************************************************)
(* Section 7: warnings about IDs that do not match; nothing is changed.    *)
(***************************************************************************)
wwpt_etid_list == {wwpt_file_orig[k].et_id : k \in DOMAIN wwpt_file_orig}
xsln_etid_list == {xsln_file_orig[k].et_id : k \in DOMAIN xsln_file_orig}

CheckMatch ==
    /\ pc = "match"
    /\ pc' = "create_outputs"
    /\ messages' = messages
                    \cup (IF wwpt_etid_list \ xsln_etid_list # {}
                          THEN {"warning: well et_id without line"} ELSE {})
                    \cup (IF xsln_etid_list \ wwpt_etid_list # {}
                          THEN {"warning: line without wells"} ELSE {})
    /\ UNCHANGED <<params, i, gdb, nomatch_list, well_vars>>

(***************************************************************************)
(* Sections 9-12 (SWL) / 9-13 (CONSPY): empty outputs and temporary files. *)
(***************************************************************************)
CreateOutputs ==
    /\ pc = "create_outputs"
    /\ gdb' = IF script = "SWL"
              THEN Put(gdb, pointfile, EmptyTable)
              ELSE Put(Put(gdb, polylinefile_3d, EmptyTable), polylinefile_2d, EmptyTable)
    /\ pc' = "create_fd"
    /\ UNCHANGED <<params, i, nomatch_list, well_vars, messages>>

\* the feature dataset with the temporary copy of the well file in it
CreateFeatureDataset ==
    /\ pc = "create_fd"
    /\ gdb' = Put(gdb, wwpt_by_xs_fd, (wwpt_file_temp :> wwpt_file_orig))
    /\ pc' = "create_xsln_temp"
    /\ UNCHANGED <<params, i, nomatch_list, well_vars, messages>>

CreateXslnTemp ==
    /\ pc = "create_xsln_temp"
    /\ gdb' = Put(gdb, xsln_temp, EmptyTable)
    /\ pc' = "extend"
    /\ i' = 1
    /\ UNCHANGED <<params, nomatch_list, well_vars, messages>>

\* one iteration of the loop over the lines of xsln_file_orig
ExtendXsln ==
    /\ pc = "extend"
    /\ i <= Len(xsln_file_orig)
    /\ LET line == xsln_file_orig[i]
           new_xsln_geometry == ExtendLine(line.shape, buffer_dist)
       IN  gdb' = Put(gdb, xsln_temp,
                      Append(gdb[xsln_temp], [et_id |-> line.et_id, shape |-> new_xsln_geometry]))
    /\ i' = i + 1
    /\ UNCHANGED <<params, pc, nomatch_list, well_vars, messages>>

ExtendDone ==
    /\ pc = "extend"
    /\ i > Len(xsln_file_orig)
    /\ pc' = "near"
    /\ i' = 1
    /\ UNCHANGED <<params, gdb, nomatch_list, well_vars, messages>>

(***************************************************************************)
(* Section 13 (SWL) / 14 (CONSPY): one iteration of the loop over the      *)
(* lines of xsln_temp: Select the wells of the line, Near analysis against *)
(* the geometry of this one line, OnLine_DIST from measureOnLine.          *)
(***************************************************************************)
\* variant: no where clause, every well is selected for every line
SelectAll(rows, et_id) == rows

\* variant: wells whose ID is the ID of no line are selected for every line
SelectWithUnmatched(rows, et_id) ==
    SelectSeq(rows, LAMBDA w : w.et_id = et_id \/ w.et_id \notin xsln_etid_list)

\* arcpy.analysis.Select(wwpt_file_temp, ..., "<wwpt_etid_field>" = '<et_id>')
Select(rows, et_id) == SelectSeq(rows, LAMBDA w : w.et_id = et_id)

\* variant: the extension length is not subtracted from the measure
NearRowNoOffset(w, xsln_geometry, near_xy, buf) ==
    [wellid |-> w.wellid, et_id |-> w.et_id, xy |-> w.xy,
     elevation |-> w.elevation, meas_elev |-> w.meas_elev, measuremt |-> w.measuremt,
     NEAR_DIST |-> Sqrt(NearDistSq(w.xy, xsln_geometry)),
     NEAR_XY |-> near_xy,
     OnLine_DIST |-> measureOnLine(xsln_geometry, near_xy)]

\* the row of one well after Near and the update cursor, for the nearest
\* point near_xy that Near reported
NearRow(w, xsln_geometry, near_xy, buf) ==
    LET n == measureOnLine(xsln_geometry, near_xy)
    IN  [wellid |-> w.wellid, et_id |-> w.et_id, xy |-> w.xy,
         elevation |-> w.elevation, meas_elev |-> w.meas_elev, measuremt |-> w.measuremt,
         NEAR_DIST |-> Sqrt(NearDistSq(w.xy, xsln_geometry)),
         NEAR_XY |-> near_xy,
         OnLine_DIST |-> n - Fx(buf)]

\* every table Near and the cursor can leave: one nearest point per well
NearTables(sel, xsln_geometry, buf) ==
    LET cand == UNION {NearestPoints(sel[k].xy, xsln_geometry) : k \in DOMAIN sel}
        picks == {f \in [DOMAIN sel -> cand] :
                    \A k \in DOMAIN sel : f[k] \in NearestPoints(sel[k].xy, xsln_geometry)}
    IN  {[k \in DOMAIN sel |-> NearRow(sel[k], xsln_geometry, f[k], buf)] : f \in picks}

NearXsln ==
    /\ pc = "near"
    /\ i <= Len(gdb[xsln_temp])
    /\ LET line == gdb[xsln_temp][i]
           fd == gdb[wwpt_by_xs_fd]
           sel == Select(fd[wwpt_file_temp], line.et_id)
       IN  \E table \in NearTables(sel, line.shape, buffer_dist) :
               gdb' = Put(gdb, wwpt_by_xs_fd, Put(fd, wwpt_by_xs_file(line.et_id), table))
    /\ i' = i + 1
    /\ UNCHANGED <<params, pc, nomatch_list, well_vars, messages>>

NearDone ==
    /\ pc = "near"
    /\ i > Len(gdb[xsln_temp])
    /\ pc' = "delete_temp"
    /\ UNCHANGED <<params, i, gdb, nomatch_list, well_vars, messages>>

(***************************************************************************)
(* Section 14 / 15: delete wwpt_temp.  Section 15 / 16: merge the feature  *)
(* classes of the dataset, in the order ListFeatureClasses returns them.   *)
(***************************************************************************)
\* variant: the temporary copy is left in the feature dataset
KeepWwptTemp ==
    /\ pc = "delete_temp"
    /\ pc' = "merge"
    /\ UNCHANGED <<params, i, gdb, nomatch_list, well_vars, messages>>

DeleteWwptTemp ==
    /\ pc = "delete_temp"
    /\ gdb' = Put(gdb, wwpt_by_xs_fd, Delete(gdb[wwpt_by_xs_fd], wwpt_file_temp))
    /\ pc' = "merge"
    /\ UNCHANGED <<params, i, nomatch_list, well_vars, messages>>

\* the orders in which a set of names can be listed
Listings(names) ==
    {f \in [1..Cardinality(names) -> names] :
        \A a, b \in 1..Cardinality(names) : a # b => f[a] # f[b]}

RECURSIVE Concat(_, _)
Concat(tables, names) ==
    IF names = <<>> THEN <<>> ELSE tables[Head(names)] \o Concat(tables, Tail(names))

Merge ==
    /\ pc = "merge"
    /\ \E wwpt_list \in Listings(DOMAIN gdb[wwpt_by_xs_fd]) :
           gdb' = Put(gdb, wwpt_merge, Concat(gdb[wwpt_by_xs_fd], wwpt_list))
    /\ pc' = "geometry"
    /\ i' = 1
    /\ UNCHANGED <<params, nomatch_list, well_vars, messages>>

(***************************************************************************)
(* SWL section 16: one iteration of the loop over the merged well file.    *)
(***************************************************************************)
\* variant: percent of the whole buffer distance
PctDistOfWhole(dist, buf) == RatMul(RatDiv(Metres(dist), RatOfInt(buf)), RatOfInt(100))

\* pct_dist = dist / buffer_dist * 200
PctDist(dist, buf) == RatMul(RatDiv(Metres(dist), RatOfInt(buf)), RatOfInt(PctFactor))

\* x_coord_feet = (int(x_coord_meters))/0.3048; x_coord_2d = x_coord_feet/VE
SwlXCoord2d(x_coord_meters, ve) ==
    LET x_coord_feet == RatDiv(RatOfInt(PyInt(Metres(x_coord_meters))), FootInMetres)
    IN  RatDiv(x_coord_feet, RatOfInt(ve))

\* variant: the point is placed at the surface elevation, scaled like x
SwlPointAtSurface(oid, well, buf, ve) ==
    LET x_coord_2d == RatDiv(RatDiv(RatOfInt(PyInt(Metres(well.OnLine_DIST))), FootInMetres),
                             RatOfInt(ve))
    IN  [oid |-> oid, SHAPE |-> <<x_coord_2d, well.elevation>>,
         wellid |-> well.wellid, et_id |-> well.et_id,
         x_coord |-> well.xy[1], y_coord |-> well.xy[2],
         x_coord_2d |-> x_coord_2d, y_coord_2d |-> well.elevation,
         distance |-> well.NEAR_DIST, elevation |-> well.elevation,
         meas_elev |-> well.meas_elev,
         pct_dist |-> RatMul(RatDiv(Metres(well.NEAR_DIST), RatOfInt(buf)), RatOfInt(PctFactor)),
         measuremt |-> well.measuremt, BUFF_DIST |-> buf, VE |-> ve]

\* the row inserted for the merged well with object ID oid
SwlPoint(oid, well, buf, ve) ==
    LET dist == well.NEAR_DIST
        pct_dist == PctDist(dist, buf)
        well_z == well.elevation
        swl_z == well.meas_elev
        x_coord_2d == SwlXCoord2d(well.OnLine_DIST, ve)
        y_coord_2d == swl_z
    IN  [oid |-> oid, SHAPE |-> <<x_coord_2d, y_coord_2d>>,
         wellid |-> well.wellid, et_id |-> well.et_id,
         x_coord |-> well.xy[1], y_coord |-> well.xy[2],
         x_coord_2d |-> x_coord_2d, y_coord_2d |-> y_coord_2d,
         distance |-> dist, elevation |-> well_z, meas_elev |-> swl_z,
         pct_dist |-> pct_dist, measuremt |-> well.measuremt,
         BUFF_DIST |-> buf, VE |-> ve]

\* variant: only the surface elevation is checked
SwlSkipsElevationOnly(well) == well.elevation = NULL

\* the two null checks that skip a well
SwlSkips(well) == well.elevation = NULL \/ well.meas_elev = NULL

SwlPointStep ==
    /\ pc = "geometry"
    /\ script = "SWL"
    /\ i <= Len(gdb[wwpt_merge])
    /\ LET well == gdb[wwpt_merge][i]
       IN  /\ messages' = IF SwlSkips(well)
                          THEN messages \cup {"error: null, skipping"}
                          ELSE messages
           /\ gdb' = IF SwlSkips(well)
                     THEN gdb
                     ELSE Put(gdb, pointfile,
                              Append(gdb[pointfile],
                                     SwlPoint(i, well, buffer_dist, vertical_exaggeration)))
    /\ i' = i + 1
    /\ UNCHANGED <<params, pc, nomatch_list, well_vars>>

(***************************************************************************)
(* CONSPY section 17: one iteration of the loop over the construction      *)
(* table.                                                                  *)
(***************************************************************************)
\* x_coord_feet = x_coord_meters/0.3048; x_coord = x_coord_feet/VE
ConspyXCoord(x_coord_meters, ve) ==
    LET x_coord_feet == RatDiv(Metres(x_coord_meters), FootInMetres)
    IN  RatDiv(x_coord_feet, RatOfInt(ve))

\* the variables assigned in the body of the inner cursor loop for one well
WellVars(oid, well, buf, ve) ==
    [well_oid |-> oid, real_x |-> well.xy[1], real_y |-> well.xy[2],
     x_coord |-> ConspyXCoord(well.OnLine_DIST, ve),
     dist |-> well.NEAR_DIST, pct_dist |-> PctDist(well.NEAR_DIST, buf),
     et_id |-> well.et_id, buffer_distance |-> buf, vert_ex |-> ve]

\* variant: the cursor is opened without the where clause
MatchingAny(merged, wellid) == DOMAIN merged

\* object IDs of the merged wells the where clause returns, in cursor order
Matching(merged, wellid) == {k \in DOMAIN merged : merged[k].wellid = wellid}
\* variant: the first row of the cursor is kept
FirstOf(S) == CHOOSE a \in S : \A b \in S : a <= b

LastOf(S) == CHOOSE a \in S : \A b \in S : b <= a

\* variant: only elev_top is checked
ConspySkipsTopOnly(row) == row.elev_top = NULL

ConspySkips(row) == row.elev_top = NULL \/ row.elev_bot = NULL

\* variant: the 3D row is keyed by the well ID instead of the object ID
Line3dByWellId(conspy_oid, row, v) ==
    [SHAPE |-> << <<v.real_x, v.real_y, row.elev_top>>, <<v.real_x, v.real_y, row.elev_bot>> >>,
     wellid |-> row.wellid, et_id |-> v.et_id, x_coord |-> v.real_x, y_coord |-> v.real_y,
     z_top |-> row.elev_top, z_bot |-> row.elev_bot, conspy_oid |-> row.wellid]

Line3d(conspy_oid, row, v) ==
    LET real_z_top == row.elev_top
        real_z_bot == row.elev_bot
    IN  [SHAPE |-> << <<v.real_x, v.real_y, real_z_top>>, <<v.real_x, v.real_y, real_z_bot>> >>,
         wellid |-> row.wellid, et_id |-> v.et_id, x_coord |-> v.real_x, y_coord |-> v.real_y,
         z_top |-> real_z_top, z_bot |-> real_z_bot, conspy_oid |-> conspy_oid]

Line2d(conspy_oid, row, v) ==
    LET real_z_top == row.elev_top
        real_z_bot == row.elev_bot
        pointA == <<v.x_coord, real_z_top>>
        pointB == <<v.x_coord, real_z_bot>>
    IN  [SHAPE |-> <<pointA, pointB>>, well_oid |-> v.well_oid,
         wellid |-> row.wellid, et_id |-> v.et_id, x_coord |-> v.real_x, y_coord |-> v.real_y,
         z_top |-> real_z_top, z_bot |-> real_z_bot, conspy_oid |-> conspy_oid,
         distance |-> v.dist, pct_dist |-> v.pct_dist,
         BUFF_DIST |-> v.buffer_distance, VE |-> v.vert_ex]

ConspyStep ==
    /\ pc = "geometry"
    /\ script = "CONSPY"
    /\ i <= Len(conspy_table)
    /\ LET row == conspy_table[i]
           found == Matching(gdb[wwpt_merge], row.wellid)
           \* continue before the geometry: a null elevation, or i == 0
           skipped == ConspySkips(row)
           nomatch == ~skipped /\ found = {}
           \* the variables after the inner cursor loop: those of the last match
           v == IF skipped \/ nomatch
                THEN well_vars
                ELSE WellVars(LastOf(found), gdb[wwpt_merge][LastOf(found)],
                              buffer_dist, vertical_exaggeration)
       IN  /\ well_vars' = v
           /\ messages' = IF skipped THEN messages \cup {"error: null, skipping"}
                                     ELSE messages
           /\ nomatch_list' = IF nomatch THEN Append(nomatch_list, row.wellid)
                                         ELSE nomatch_list
           /\ gdb' = IF skipped \/ nomatch
                     THEN gdb
                     ELSE Put(Put(gdb, polylinefile_3d,
                                  Append(gdb[polylinefile_3d], Line3d(i, row, v))),
                              polylinefile_2d,
                              Append(gdb[polylinefile_2d], Line2d(i, row, v)))
    /\ i' = i + 1
    /\ UNCHANGED <<params, pc>>

GeometryDone ==
    /\ pc = "geometry"
    /\ i > (IF script = "SWL" THEN Len(gdb[wwpt_merge]) ELSE Len(conspy_table))
    /\ pc' = "finish"
    /\ messages' = messages \cup (IF nomatch_list # <<>> THEN {"no matching well point"} ELSE {})
    /\ UNCHANGED <<params, i, gdb, nomatch_list, well_vars>>

(***************************************************************************)
(* After the geometry loop: SWL DeleteField and copy; CONSPY sections      *)
(* 18-20, JoinField, Buffer, Sort, DeleteField and copy.                   *)
(***************************************************************************)
\* arcpy.management.DeleteField, in place
DeleteField(rows, fields) ==
    [k \in DOMAIN rows |-> [f \in DOMAIN rows[k] \ fields |-> rows[k][f]]]

SwlFinish ==
    /\ pc = "finish"
    /\ script = "SWL"
    /\ LET pt_file_copy1 == DeleteField(gdb[pointfile],
                                {"x_coord", "y_coord", "x_coord_2d", "y_coord_2d",
                                 "distance", "pct_dist"})
       IN  gdb' = Put(Put(gdb, pointfile, pt_file_copy1), pointfile_copy, pt_file_copy1)
    /\ pc' = "cleanup"
    /\ i' = 1
    /\ UNCHANGED <<params, nomatch_list, well_vars, messages>>

RatAdd(a, b) == Rat(a.n * b.d + b.n * a.d, a.d * b.d)
RatNeg(a) == Rat(-a.n, a.d)

\* parameter 10 of the tool, float(...)
well_stick_width == Rat(1, 2)
\* bufferdist = (130/vertical_exaggeration) + well_stick_width
BufferDist(ve) == RatAdd(Rat(130, ve), well_stick_width)

\* arcpy.management.JoinField(polylinefile_2d, 'conspy_oid', conspy_table, 'OBJECTID')
JoinField(rows, table) ==
    [k \in DOMAIN rows |->
        [elev_top |-> table[rows[k].conspy_oid].elev_top,
         elev_bot |-> table[rows[k].conspy_oid].elev_bot] @@ rows[k]]

\* arcpy.analysis.Buffer(..., 'FLAT', ..., 'PLANAR') of a vertical stick
Buffer(rows, bufferdist) ==
    [k \in DOMAIN rows |->
        [SHAPE |-> [x_min |-> RatAdd(rows[k].SHAPE[1][1], RatNeg(bufferdist)),
                    x_max |-> RatAdd(rows[k].SHAPE[1][1], bufferdist),
                    y_top |-> rows[k].SHAPE[1][2],
                    y_bot |-> rows[k].SHAPE[2][2]]] @@ rows[k]]

\* arcpy.management.Sort by the well ID field, ascending
RECURSIVE Sort(_)
Sort(rows) ==
    IF rows = <<>> THEN <<>>
    ELSE LET k == CHOOSE a \in DOMAIN rows :
                      \A b \in DOMAIN rows :
                          \/ rows[a].wellid < rows[b].wellid
                          \/ rows[a].wellid = rows[b].wellid /\ a <= b
         IN  CHOOSE sorted \in
                 {<<rows[k]>> \o Sort(rest) :
                      rest \in {SubSeq(rows, 1, k - 1) \o SubSeq(rows, k + 1, Len(rows))}} : TRUE

ConspyFinish ==
    /\ pc = "finish"
    /\ script = "CONSPY"
    /\ \E joined \in {JoinField(gdb[polylinefile_2d], conspy_table)} :
       \E temp_polygons \in {Buffer(joined, BufferDist(vertical_exaggeration))} :
       \E polygonfile_copy \in
              {DeleteField(Sort(temp_polygons),
                           {"conspy_oid", "x_coord", "y_coord", "distance", "pct_dist",
                            "z_top", "z_bot", "BUFF_DIST"})} :
           gdb' = Put(Put(Put(Put(gdb, polylinefile_2d, joined),
                              temp_polygon_file, temp_polygons),
                          polygon_file, polygonfile_copy),
                      polygon_file_copy1, polygonfile_copy)
    /\ pc' = "cleanup"
    /\ i' = 1
    /\ UNCHANGED <<params, nomatch_list, well_vars, messages>>

(***************************************************************************)
(* Section 17 (SWL) / 21 (CONSPY): the deletes inside try/except, then the *)
(* completion message.                                                     *)
(***************************************************************************)
\* variant: the merged well file is not in the list of deletes
TempFilesWithoutMerge ==
    IF script = "SWL"
    THEN <<wwpt_by_xs_fd, xsln_temp>>
    ELSE <<xsln_temp, temp_polygon_file, wwpt_by_xs_fd, polylinefile_2d, polylinefile_3d>>

TempFiles ==
    IF script = "SWL"
    THEN <<wwpt_by_xs_fd, wwpt_merge, xsln_temp>>
    ELSE <<xsln_temp, temp_polygon_file, wwpt_by_xs_fd, wwpt_merge,
           polylinefile_2d, polylinefile_3d>>

CleanupDelete ==
    /\ pc = "cleanup"
    /\ i <= Len(TempFiles)
    /\ gdb' = Delete(gdb, TempFiles[i])
    /\ i' = i + 1
    /\ UNCHANGED <<params, pc, nomatch_list, well_vars, messages>>

\* variant: no except clause, the exception of a Delete ends the script
CleanupFailsFatal ==
    /\ pc = "cleanup"
    /\ i <= Len(TempFiles)
    /\ messages' = messages \cup {"error"}
    /\ pc' = "exit"
    /\ UNCHANGED <<params, i, gdb, nomatch_list, well_vars>>

\* a Delete raises: the except clause prints the warning, the rest is skipped
CleanupFails ==
    /\ pc = "cleanup"
    /\ i <= Len(TempFiles)
    /\ messages' = messages \cup {"warning: unable to delete all temporary files"}
    /\ pc' = "complete"
    /\ UNCHANGED <<params, i, gdb, nomatch_list, well_vars>>

CleanupDone ==
    /\ pc = "cleanup"
    /\ i > Len(TempFiles)
    /\ pc' = "complete"
    /\ UNCHANGED <<params, i, gdb, nomatch_list, well_vars, messages>>

Complete ==
    /\ pc = "complete"
    /\ messages' = messages \cup {"completed"}
    /\ pc' = "done"
    /\ UNCHANGED <<params, i, gdb, nomatch_list, well_vars>>

Next ==
    \/ DataQC \/ CheckMatch \/ CreateOutputs \/ CreateFeatureDataset \/ CreateXslnTemp
    \/ ExtendXsln \/ ExtendDone \/ NearXsln \/ NearDone \/ DeleteWwptTemp \/ Merge
    \/ SwlPointStep \/ ConspyStep \/ GeometryDone \/ SwlFinish \/ ConspyFinish
    \/ CleanupDelete \/ CleanupFails \/ CleanupDone \/ Complete

Spec == Init /\ [][Next]_vars

\* Runs executed to their end: the interpreter always runs the next
\* statement of the script.  The runs are those of the QC family, of the
\* three-record family and the SWL runs on a single well.
FairInputs ==
    QcInputs \cup ThreeRecordInputs \cup {in \in SwlNullInputs : Len(in.wwpt) = 1}

FairInit ==
    /\ \E in \in FairInputs :
        /\ script = in.script
        /\ buffer_dist = in.buffer_dist
        /\ vertical_exaggeration = in.vertical_exaggeration
        /\ xsln_file_orig = in.xsln
        /\ wwpt_file_orig = in.wwpt
        /\ conspy_table = in.conspy
    /\ pc = "qc"
    /\ i = 0
    /\ gdb = <<>>
    /\ nomatch_list = <<>>
    /\ well_vars = <<>>
    /\ messages = {}

FairSpec == FairInit /\ [][Next]_vars /\ WF_vars(Next)

(***************************************************************************)
(* Properties                                                              *)
(***************************************************************************)
Table(name) == IF Exists(name) THEN gdb[name] ELSE <<>>
Rows(name) == {Table(name)[k] : k \in DOMAIN Table(name)}
HasField(row, f) == f \in DOMAIN row

\* the line of the input file that the subset of an ID is measured against
LineOf(et_id) ==
    xsln_file_orig[LastOf({k \in DOMAIN xsln_file_orig : xsln_file_orig[k].et_id = et_id})].shape
Extended(et_id) == ExtendLine(LineOf(et_id), buffer_dist)
FirstVertex(verts) == verts[1]
LastVertex(verts) == verts[Len(verts)]

\* x is exactly s metres converted to feet and divided by ve:
\* x * 0.3048 * ve = s / Scale, over the integers
IsScaledDistance(x, s, ve) == x.n * 3048 * ve * Scale = s * 10000 * x.d

C2_OnLineDistFromOriginalStart ==
    \A r \in Rows(wwpt_merge) :
        LET orig == LineOf(r.et_id)
            L == PolylineLength(orig)
        IN  /\ r.NEAR_XY = FirstVertex(orig) => r.OnLine_DIST = 0
            /\ r.NEAR_XY = LastVertex(orig) => r.OnLine_DIST = L
            /\ (\E k \in SegmentsOf(orig) : OnSegment(r.NEAR_XY, orig[k], orig[k + 1]))
                   => r.OnLine_DIST = measureOnLine(orig, r.NEAR_XY)

C2_Witness ==
    \E r1, r2 \in Rows(wwpt_merge) :
        /\ r1.et_id = r2.et_id
        /\ r1.NEAR_XY = FirstVertex(LineOf(r1.et_id)) /\ r1.OnLine_DIST = 0
        /\ r2.NEAR_XY = LastVertex(LineOf(r2.et_id))
        /\ r2.OnLine_DIST = PolylineLength(LineOf(r2.et_id)) /\ r2.OnLine_DIST > 0

\* the nearest point of a merged well lies on the extension before the
\* original first vertex / past the original last vertex
BeyondFirst(r) ==
    /\ r.NEAR_XY # FirstVertex(LineOf(r.et_id))
    /\ OnSegment(r.NEAR_XY, FirstVertex(Extended(r.et_id)), FirstVertex(LineOf(r.et_id)))
BeyondLast(r) ==
    /\ r.NEAR_XY # LastVertex(LineOf(r.et_id))
    /\ OnSegment(r.NEAR_XY, LastVertex(LineOf(r.et_id)), LastVertex(Extended(r.et_id)))
\* how far the well projects beyond the endpoint, along the terminal segment
ProjBeforeFirst(r) ==
    LET orig == LineOf(r.et_id)
    IN  Dot(Sub(r.xy, orig[1]), AngleTo(orig[2], orig[1]))
ProjPastLast(r) ==
    LET orig == LineOf(r.et_id)
        n == Len(orig)
    IN  Dot(Sub(r.xy, orig[n]), AngleTo(orig[n - 1], orig[n]))

\* C3 as stated: beyond an endpoint s is negative / over-length and keeps
\* growing in magnitude the farther the well projects beyond the endpoint.
C3_KeepsGrowing ==
    \A r \in Rows(wwpt_merge) :
        /\ BeyondFirst(r) => r.OnLine_DIST < 0
        /\ BeyondLast(r) => r.OnLine_DIST > PolylineLength(LineOf(r.et_id))
        /\ \A q \in Rows(wwpt_merge) :
               /\ (r.et_id = q.et_id /\ BeyondFirst(r) /\ BeyondFirst(q)
                     /\ ProjBeforeFirst(r) < ProjBeforeFirst(q))
                      => q.OnLine_DIST < r.OnLine_DIST
               /\ (r.et_id = q.et_id /\ BeyondLast(r) /\ BeyondLast(q)
                     /\ ProjPastLast(r) < ProjPastLast(q))
                      => q.OnLine_DIST > r.OnLine_DIST

\* C3 (amended): beyond an endpoint s is negative / over-length and equals
\* the distance p the well projects beyond the endpoint, up to buffer_dist:
\* s = -min(p, buffer_dist) before the first vertex and
\* s = L + min(p, buffer_dist) past the last one.
C3_GrowsUpToBuffer ==
    \A r \in Rows(wwpt_merge) :
        /\ BeyondFirst(r) =>
               /\ r.OnLine_DIST < 0
               /\ r.OnLine_DIST = -Min2(ProjBeforeFirst(r), Fx(buffer_dist))
        /\ BeyondLast(r) =>
               /\ r.OnLine_DIST > PolylineLength(LineOf(r.et_id))
               /\ r.OnLine_DIST = PolylineLength(LineOf(r.et_id))
                                    + Min2(ProjPastLast(r), Fx(buffer_dist))

C3_Witness ==
    \E r, q \in Rows(wwpt_merge) :
        /\ BeyondFirst(r) /\ ProjBeforeFirst(r) > Fx(buffer_dist)
        /\ r.OnLine_DIST = -Fx(buffer_dist)
        /\ BeyondLast(q) /\ ProjPastLast(q) < Fx(buffer_dist)
        /\ q.OnLine_DIST = PolylineLength(LineOf(q.et_id)) + ProjPastLast(q)

\* C4: the 2D y-coordinate is the stored elevation value, untransformed:
\* every SWL point has y = meas_elev of its well; every CONSPY 2D stick has
\* two vertices with the same x and y = elev_top and elev_bot of its record.
C4_YIsElevation ==
    /\ Exists(wwpt_merge) =>
           \A r \in Rows(pointfile) :
               /\ r.SHAPE[2] = gdb[wwpt_merge][r.oid].meas_elev
               /\ r.SHAPE[2] # NULL
    /\ \A r \in Rows(polylinefile_2d) :
           /\ Len(r.SHAPE) = 2
           /\ r.SHAPE[1][1] = r.SHAPE[2][1]
           /\ r.SHAPE[1][2] = conspy_table[r.conspy_oid].elev_top
           /\ r.SHAPE[2][2] = conspy_table[r.conspy_oid].elev_bot
           /\ r.SHAPE[1][2] # NULL /\ r.SHAPE[2][2] # NULL

C4_Witness ==
    /\ script = "SWL" /\ vertical_exaggeration > 1
    /\ \E r \in Rows(pointfile) :
           /\ Exists(wwpt_merge)
           /\ r.SHAPE[2] = Some(20)
           /\ gdb[wwpt_merge][r.oid].elevation = Some(30)
           /\ gdb[wwpt_merge][r.oid].OnLine_DIST # 0

\* C5: pct_dist = d / buffer_dist * 200 with d the well's NEAR_DIST: 0 for a
\* well on the line, 100 for a well at half the buffer distance.
IsPctDist(pct, d, buf) ==
    /\ pct.n * Fx(buf) = d * 200 * pct.d
    /\ d = 0 => pct = [n |-> 0, d |-> 1]
    /\ 2 * d = Fx(buf) => pct = [n |-> 100, d |-> 1]

C5_PctDist ==
    Exists(wwpt_merge) =>
        /\ \A r \in Rows(pointfile) :
               HasField(r, "pct_dist") =>
                   /\ r.distance = gdb[wwpt_merge][r.oid].NEAR_DIST
                   /\ IsPctDist(r.pct_dist, r.distance, buffer_dist)
        /\ \A r \in Rows(polylinefile_2d) :
               /\ r.distance = gdb[wwpt_merge][r.well_oid].NEAR_DIST
               /\ IsPctDist(r.pct_dist, r.distance, buffer_dist)

C5_Witness ==
    \E r \in Rows(polylinefile_2d) :
        /\ 2 * r.distance = Fx(buffer_dist)
        /\ r.pct_dist = [n |-> 100, d |-> 1]

\* C6: a run with buffer_dist <= 0, vertical_exaggeration <= 0 or an empty
\* input exits before anything exists in the output workspace; whenever a
\* dataset exists, both parameters are positive and no input is empty.
C6_QcBeforeAnyDataset ==
    /\ pc = "exit" => DOMAIN gdb = {}
    /\ DOMAIN gdb # {} =>
           /\ buffer_dist > 0
           /\ vertical_exaggeration > 0
           /\ Len(wwpt_file_orig) > 0
           /\ Len(xsln_file_orig) > 0
           /\ script = "CONSPY" => Len(conspy_table) > 0

C6_Witness ==
    /\ pc = "exit" /\ DOMAIN gdb = {}
    /\ buffer_dist > 0 /\ vertical_exaggeration > 0
    /\ Len(wwpt_file_orig) > 0 /\ Len(xsln_file_orig) = 0

\* the geometry loop has ended and what it read and wrote is still there
AfterGeometryLoop == pc = "finish"
\* items of the geometry loop's cursor that have been processed
Processed(n) == IF pc = "geometry" THEN 1..(i - 1) ELSE 1..n
CountRows(name, f, v) ==
    Cardinality({k \in DOMAIN Table(name) : Table(name)[k][f] = v})

C8_NullRecordSkipped ==
    (script = "CONSPY" /\ pc \in {"geometry", "finish"}) =>
        LET done == Processed(Len(conspy_table))
            isnull(k) == conspy_table[k].elev_top = NULL \/ conspy_table[k].elev_bot = NULL
            nomatch(k) == \A w \in Rows(wwpt_merge) : w.wellid # conspy_table[k].wellid
        IN  /\ \A k \in DOMAIN conspy_table :
                   (isnull(k) \/ k \notin done) =>
                       /\ CountRows(polylinefile_3d, "conspy_oid", k) = 0
                       /\ CountRows(polylinefile_2d, "conspy_oid", k) = 0
            /\ Len(nomatch_list) = Cardinality({k \in done : ~isnull(k) /\ nomatch(k)})

C8_Witness ==
    /\ script = "CONSPY" /\ AfterGeometryLoop
    /\ Len(conspy_table) = 2
    /\ conspy_table[1].elev_top # NULL /\ conspy_table[1].elev_bot = NULL
    /\ \A w \in Rows(wwpt_merge) : w.wellid # conspy_table[1].wellid
    /\ nomatch_list = <<>>
    /\ Len(gdb[polylinefile_3d]) = 1 /\ gdb[polylinefile_3d][1].conspy_oid = 2
    /\ Len(gdb[polylinefile_2d]) = 1 /\ gdb[polylinefile_2d][1].conspy_oid = 2

\* NEAR_XY, NEAR_DIST and OnLine_DIST of a well row are those of the extended
\* line k of the input file
MeasuredAgainst(r, k) ==
    LET ext == ExtendLine(xsln_file_orig[k].shape, buffer_dist)
    IN  /\ r.NEAR_XY \in NearestPoints(r.xy, ext)
        /\ r.NEAR_DIST * r.NEAR_DIST = NearDistSq(r.xy, ext)
        /\ r.OnLine_DIST = measureOnLine(ext, r.NEAR_XY) - Fx(buffer_dist)

\* C9: every well is projected onto and measured along a line whose ID is the
\* well's own cross-section ID, also when another line is closer; the
\* outputs carry the ID and the distance of that measurement.
C9_MeasuredAgainstOwnLine ==
    /\ \A r \in Rows(wwpt_merge) :
           \E k \in DOMAIN xsln_file_orig :
               xsln_file_orig[k].et_id = r.et_id /\ MeasuredAgainst(r, k)
    /\ Exists(wwpt_merge) =>
           /\ \A p \in Rows(pointfile) :
                  /\ p.et_id = gdb[wwpt_merge][p.oid].et_id
                  /\ HasField(p, "distance") => p.distance = gdb[wwpt_merge][p.oid].NEAR_DIST
           /\ \A p \in Rows(polylinefile_2d) :
                  /\ p.et_id = gdb[wwpt_merge][p.well_oid].et_id
                  /\ p.distance = gdb[wwpt_merge][p.well_oid].NEAR_DIST

C9_Witness ==
    \E p \in Rows(pointfile) :
        /\ HasField(p, "distance")
        /\ \E k \in DOMAIN xsln_file_orig :
               /\ xsln_file_orig[k].et_id # p.et_id
               /\ NearDistSq(<<p.x_coord, p.y_coord>>,
                             ExtendLine(xsln_file_orig[k].shape, buffer_dist))
                    < p.distance * p.distance

\* new is end moved by b along the direction from inner to end
MovedOutward(new, end, inner, b) ==
    /\ DistSq(new, end) = b * b
    /\ Dot(Sub(new, end), Sub(end, inner)) = b * DistanceTo(inner, end)

\* C10: the temporary line of every cross-section line has the same number
\* of vertices, the same interior vertices, its first and last vertex moved
\* outward by buffer_dist along the terminal segments, and length
\* L + 2 * buffer_dist; every line is extended, whatever the wells.
C10_LineExtension ==
    /\ \A j \in DOMAIN Table(xsln_temp) :
           LET orig == xsln_file_orig[j].shape
               ext == gdb[xsln_temp][j].shape
               n == Len(orig)
               b == Fx(buffer_dist)
           IN  /\ gdb[xsln_temp][j].et_id = xsln_file_orig[j].et_id
               /\ Len(ext) = n
               /\ \A k \in 2..(n - 1) : ext[k] = orig[k]
               /\ MovedOutward(ext[1], orig[1], orig[2], b)
               /\ MovedOutward(ext[n], orig[n], orig[n - 1], b)
               /\ PolylineLength(ext) = PolylineLength(orig) + 2 * b
    /\ (Exists(xsln_temp) /\ pc # "extend") => Len(gdb[xsln_temp]) = Len(xsln_file_orig)

C10_Witness ==
    /\ Exists(xsln_temp) /\ Exists(wwpt_merge)
    /\ Len(gdb[xsln_temp]) = 1 /\ Len(gdb[xsln_temp][1].shape) = 3
    /\ Rows(wwpt_merge) # {}
    /\ \A r \in Rows(wwpt_merge) : ~BeyondFirst(r) /\ ~BeyondLast(r)

\* p lies on the axis parallel segment a-b
Between(p, a, b) ==
    /\ Min2(a[1], b[1]) <= p[1] /\ p[1] <= Max2(a[1], b[1])
    /\ Min2(a[2], b[2]) <= p[2] /\ p[2] <= Max2(a[2], b[2])
\* every point of a line that a well can be nearest to
PointsOn(verts) ==
    UNION {{<<x, y>> : x \in Min2(verts[k][1], verts[k + 1][1])..Max2(verts[k][1], verts[k + 1][1]),
                       y \in Min2(verts[k][2], verts[k + 1][2])..Max2(verts[k][2], verts[k + 1][2])} :
           k \in SegmentsOf(verts)}
\* length of the axis parallel segment a-b
SegmentLength(a, b) == Abs(b[1] - a[1]) + Abs(b[2] - a[2])
\* length of the first k segments of a line
RECURSIVE LengthOfFirst(_, _)
LengthOfFirst(verts, k) ==
    IF k = 0 THEN 0
    ELSE LengthOfFirst(verts, k - 1) + SegmentLength(verts[k], verts[k + 1])
\* arc lengths from the first vertex of a line to its point p
ArcLengths(verts, p) ==
    {LengthOfFirst(verts, k - 1) + SegmentLength(verts[k], p) :
        k \in {j \in SegmentsOf(verts) : Between(p, verts[j], verts[j + 1])}}

\* C11: for every well Q of the merged file and its extended line P, the
\* point N = (NEAR_X, NEAR_Y) is a point of P at the least planar distance
\* from Q, NEAR_DIST is the distance from Q to N, and OnLine_DIST (before the
\* buffer distance is subtracted) is the arc length along P from its first
\* vertex to N.
C11_KernelConsistency ==
    \A r \in Rows(wwpt_merge) :
        LET P == Extended(r.et_id)
            Q == r.xy
            N == r.NEAR_XY
        IN  /\ N \in PointsOn(P)
            /\ \A p \in PointsOn(P) : DistSq(Q, N) <= DistSq(Q, p)
            /\ r.NEAR_DIST >= 0
            /\ r.NEAR_DIST * r.NEAR_DIST = DistSq(Q, N)
            /\ r.OnLine_DIST + Fx(buffer_dist) \in ArcLengths(P, N)

C11_Witness ==
    \E r \in Rows(wwpt_merge) :
        LET P == Extended(r.et_id)
        IN  /\ Len(P) = 3
            /\ r.NEAR_DIST > 0
            /\ r.NEAR_XY \notin {P[k] : k \in DOMAIN P}
            /\ Between(r.NEAR_XY, P[2], P[3])
            /\ r.OnLine_DIST > SegLen
            /\ r.xy # r.NEAR_XY

\* construction records with both elevations
HasElevations(k) == conspy_table[k].elev_top # NULL /\ conspy_table[k].elev_bot # NULL
\* merged well rows with the well ID of construction record k
WellsOf(k) == {w \in Rows(wwpt_merge) : w.wellid = conspy_table[k].wellid}
\* processed records with elevations and without a merged well
NoMatchRecords == {k \in Processed(Len(conspy_table)) : HasElevations(k) /\ WellsOf(k) = {}}
\* the j-th smallest element of a set of numbers
Nth(S, j) == CHOOSE k \in S : Cardinality({h \in S : h <= k}) = j

\* C12 (CONSPY): a record with both elevations whose well ID is in no row of
\* the merged well file is skipped: its well ID is appended to nomatch_list
\* (which therefore lists exactly these records, in order), no 3D and no 2D
\* polyline is written for it, and every polyline written carries the
\* coordinates, x and cross-section ID of a merged well with the record's own
\* well ID, never those left from an earlier record.
C12_NoMatchSkipped ==
    (script = "CONSPY" /\ pc \in {"geometry", "finish"}) =>
        /\ \A k \in NoMatchRecords :
               /\ CountRows(polylinefile_3d, "conspy_oid", k) = 0
               /\ CountRows(polylinefile_2d, "conspy_oid", k) = 0
        /\ nomatch_list = [j \in 1..Cardinality(NoMatchRecords) |->
                               conspy_table[Nth(NoMatchRecords, j)].wellid]
        /\ \A r \in Rows(polylinefile_3d) :
               /\ r.wellid = conspy_table[r.conspy_oid].wellid
               /\ \E w \in WellsOf(r.conspy_oid) :
                      /\ r.SHAPE[1][1] = w.xy[1] /\ r.SHAPE[1][2] = w.xy[2]
                      /\ r.SHAPE[2][1] = w.xy[1] /\ r.SHAPE[2][2] = w.xy[2]
                      /\ r.x_coord = w.xy[1] /\ r.y_coord = w.xy[2] /\ r.et_id = w.et_id
        /\ \A r \in Rows(polylinefile_2d) :
               /\ r.wellid = conspy_table[r.conspy_oid].wellid
               /\ \E w \in WellsOf(r.conspy_oid) :
                      /\ r.SHAPE[1][1] = ConspyXCoord(w.OnLine_DIST, vertical_exaggeration)
                      /\ r.SHAPE[2][1] = ConspyXCoord(w.OnLine_DIST, vertical_exaggeration)
                      /\ r.x_coord = w.xy[1] /\ r.y_coord = w.xy[2] /\ r.et_id = w.et_id
                      /\ r.distance = w.NEAR_DIST
        /\ pc = "finish" => (("no matching well point" \in messages) <=> NoMatchRecords # {})

C12_Witness ==
    /\ script = "CONSPY" /\ AfterGeometryLoop
    /\ Len(conspy_table) = 2
    /\ HasElevations(1) /\ WellsOf(1) # {}
    /\ HasElevations(2) /\ WellsOf(2) = {}
    /\ well_vars # <<>>
    /\ nomatch_list = <<conspy_table[2].wellid>>
    /\ Len(gdb[polylinefile_3d]) = 1 /\ gdb[polylinefile_3d][1].conspy_oid = 1
    /\ Len(gdb[polylinefile_2d]) = 1 /\ gdb[polylinefile_2d][1].conspy_oid = 1

\* wells of the input file whose cross-section ID is the ID of no line
UnmatchedWells ==
    {k \in DOMAIN wwpt_file_orig : wwpt_file_orig[k].et_id \notin xsln_etid_list}
\* the merged well file and every output feature class
WellDerived ==
    {wwpt_merge, pointfile, pointfile_copy, polylinefile_3d, polylinefile_2d,
     temp_polygon_file, polygon_file, polygon_file_copy1}

\* C13: a well whose cross-section ID matches no line is only warned about:
\* the run does not exit for it, the warning is printed, and every row of
\* the merged well file, of swl_2d_xsecview and of the CONSPY sticks carries
\* a cross-section ID that occurs in the cross-section line file.
C13_UnmatchedWellAbsent ==
    /\ \A name \in WellDerived : \A r \in Rows(name) : r.et_id \in xsln_etid_list
    /\ Exists(wwpt_by_xs_fd) =>
           \A name \in DOMAIN gdb[wwpt_by_xs_fd] \ {wwpt_file_temp} :
               \A k \in DOMAIN gdb[wwpt_by_xs_fd][name] :
                   gdb[wwpt_by_xs_fd][name][k].et_id \in xsln_etid_list
    /\ (UnmatchedWells # {} /\ pc \notin {"qc", "match", "exit"})
           => "warning: well et_id without line" \in messages
    /\ pc = "exit" => ~QcPasses

C13_Witness ==
    /\ pc = "done" /\ script = "SWL"
    /\ UnmatchedWells # {}
    /\ "warning: well et_id without line" \in messages
    /\ "completed" \in messages
    /\ Len(wwpt_file_orig) = 2
    /\ \A k \in DOMAIN wwpt_file_orig : ~SwlSkips(wwpt_file_orig[k])
    /\ Len(gdb[pointfile]) = 1
    /\ gdb[pointfile][1].et_id \in xsln_etid_list

\* the merged row r is the input well w with the Near fields added
SameWell(r, w) == \A f \in DOMAIN w : r[f] = w[f]
\* position in the input file of the last line with an ID
LastLineWith(et_id) ==
    LastOf({k \in DOMAIN xsln_file_orig : xsln_file_orig[k].et_id = et_id})
\* number of rows of all tables of the feature dataset
RECURSIVE TotalRows(_, _)
TotalRows(fd, names) ==
    IF names = {} THEN 0
    ELSE LET n == CHOOSE m \in names : TRUE
         IN  Len(fd[n]) + TotalRows(fd, names \ {n})

\* C14: wwpt_temp is gone from the wwpt_by_xs dataset when its feature
\* classes are listed and merged; the merged file consists of the rows of the
\* per-cross-section subsets and holds each input well row at most once (once
\* if its ID is the ID of a line, else not at all), also when two lines share
\* an ID: then the subset of that ID holds each of its wells once, measured
\* against the last line with that ID.
C14_MergedFromSubsetsOnce ==
    /\ pc = "merge" => wwpt_file_temp \notin DOMAIN gdb[wwpt_by_xs_fd]
    /\ (Exists(wwpt_merge) /\ Exists(wwpt_by_xs_fd)) =>
           LET fd == gdb[wwpt_by_xs_fd]
           IN  /\ wwpt_file_temp \notin DOMAIN fd
               /\ DOMAIN fd = {wwpt_by_xs_file(id) : id \in xsln_etid_list}
               /\ Len(gdb[wwpt_merge]) = TotalRows(fd, DOMAIN fd)
               /\ \A r \in Rows(wwpt_merge) :
                      \E k \in DOMAIN fd[wwpt_by_xs_file(r.et_id)] :
                          fd[wwpt_by_xs_file(r.et_id)][k] = r
    /\ Exists(wwpt_merge) =>
           /\ \A k \in DOMAIN wwpt_file_orig :
                  Cardinality({j \in DOMAIN gdb[wwpt_merge] :
                                  SameWell(gdb[wwpt_merge][j], wwpt_file_orig[k])})
                    = IF k \in UnmatchedWells THEN 0 ELSE 1
           /\ Len(gdb[wwpt_merge]) = Len(wwpt_file_orig) - Cardinality(UnmatchedWells)
           /\ \A r \in Rows(wwpt_merge) : MeasuredAgainst(r, LastLineWith(r.et_id))

C14_Witness ==
    /\ Exists(wwpt_merge) /\ Exists(wwpt_by_xs_fd)
    /\ Len(xsln_file_orig) = 2
    /\ xsln_file_orig[1].et_id = xsln_file_orig[2].et_id
    /\ DOMAIN gdb[wwpt_by_xs_fd] = {wwpt_by_xs_file(xsln_file_orig[1].et_id)}
    /\ Len(wwpt_file_orig) = 2 /\ Len(gdb[wwpt_merge]) = 2
    /\ \E r \in Rows(wwpt_merge) : MeasuredAgainst(r, 2) /\ ~MeasuredAgainst(r, 1)

\* conspy_oid values of the rows of a polyline file
OidsOf(name) == {r.conspy_oid : r \in Rows(name)}
\* processed records skipped for a null elevation
NullRecords == {k \in Processed(Len(conspy_table)) : ~HasElevations(k)}

\* C15 (CONSPY): after every iteration of the record loop the 3D and the 2D
\* polyline file hold the same set of conspy_oid values, each once; every
\* processed record is in exactly one of the classes written, skipped for a
\* null elevation, skipped for no matching well, and the sizes of the three
\* classes add up to the number of records processed.
C15_SameOidsThreeClasses ==
    (script = "CONSPY" /\ pc \in {"geometry", "finish"}) =>
        LET written == OidsOf(polylinefile_3d)
        IN  /\ OidsOf(polylinefile_2d) = written
            /\ \A k \in written :
                   /\ CountRows(polylinefile_3d, "conspy_oid", k) = 1
                   /\ CountRows(polylinefile_2d, "conspy_oid", k) = 1
            /\ Len(gdb[polylinefile_3d]) = Cardinality(written)
            /\ Len(gdb[polylinefile_2d]) = Cardinality(written)
            /\ written \cup NullRecords \cup NoMatchRecords = Processed(Len(conspy_table))
            /\ written \cap NullRecords = {}
            /\ written \cap NoMatchRecords = {}
            /\ NullRecords \cap NoMatchRecords = {}
            /\ Len(gdb[polylinefile_3d]) + Cardinality(NullRecords) + Len(nomatch_list)
                 = Cardinality(Processed(Len(conspy_table)))

C15_Witness ==
    /\ script = "CONSPY" /\ pc = "geometry" /\ i = 4
    /\ Len(conspy_table) = 3
    /\ OidsOf(polylinefile_3d) = {3} /\ OidsOf(polylinefile_2d) = {3}
    /\ NullRecords = {2}
    /\ NoMatchRecords = {1} /\ Len(nomatch_list) = 1

\* k is the last row of the merged well file with the well ID of record oid
IsLastMatch(k, oid) ==
    /\ k \in DOMAIN gdb[wwpt_merge]
    /\ gdb[wwpt_merge][k].wellid = conspy_table[oid].wellid
    /\ \A j \in DOMAIN gdb[wwpt_merge] :
           gdb[wwpt_merge][j].wellid = conspy_table[oid].wellid => j <= k

\* C16 (CONSPY): a construction record gives at most one stick, also when
\* its well ID is in several rows of the merged well file; the coordinates,
\* the distance, x and the cross-section ID of the stick are those of the
\* last such row in cursor order.
C16_LastMatchingRowUsed ==
    (script = "CONSPY" /\ pc \in {"geometry", "finish"}) =>
        /\ \A oid \in DOMAIN conspy_table :
               /\ CountRows(polylinefile_3d, "conspy_oid", oid) <= 1
               /\ CountRows(polylinefile_2d, "conspy_oid", oid) <= 1
        /\ \A r \in Rows(polylinefile_3d) :
               \E k \in DOMAIN gdb[wwpt_merge] :
                   LET w == gdb[wwpt_merge][k]
                   IN  /\ IsLastMatch(k, r.conspy_oid)
                       /\ r.x_coord = w.xy[1] /\ r.y_coord = w.xy[2]
                       /\ r.SHAPE[1][1] = w.xy[1] /\ r.SHAPE[1][2] = w.xy[2]
                       /\ r.et_id = w.et_id
        /\ \A r \in Rows(polylinefile_2d) :
               \E k \in DOMAIN gdb[wwpt_merge] :
                   LET w == gdb[wwpt_merge][k]
                   IN  /\ IsLastMatch(k, r.conspy_oid)
                       /\ r.x_coord = w.xy[1] /\ r.y_coord = w.xy[2]
                       /\ r.SHAPE[1][1] = ConspyXCoord(w.OnLine_DIST, vertical_exaggeration)
                       /\ r.distance = w.NEAR_DIST
                       /\ r.pct_dist = PctDist(w.NEAR_DIST, buffer_dist)
                       /\ r.et_id = w.et_id

C16_Witness ==
    /\ script = "CONSPY" /\ AfterGeometryLoop
    /\ Len(gdb[wwpt_merge]) = 2
    /\ gdb[wwpt_merge][1].wellid = gdb[wwpt_merge][2].wellid
    /\ gdb[wwpt_merge][1].et_id # gdb[wwpt_merge][2].et_id
    /\ gdb[wwpt_merge][1].OnLine_DIST # gdb[wwpt_merge][2].OnLine_DIST
    /\ \E r \in Rows(polylinefile_2d) :
           /\ r.wellid = gdb[wwpt_merge][2].wellid
           /\ r.et_id = gdb[wwpt_merge][2].et_id
           /\ CountRows(polylinefile_2d, "conspy_oid", r.conspy_oid) = 1
           /\ CountRows(polylinefile_2d, "wellid", r.wellid) = 1

\* the cleanup step has ended without the warning of its except clause
CleanupSucceeded ==
    /\ pc \in {"complete", "done"}
    /\ "warning: unable to delete all temporary files" \notin messages

\* C17: when the cleanup step has run and every delete succeeded, the
\* workspace holds exactly the outputs: swl_2d_xsecview and
\* swl_2d_xsecview_prj for SWL, conspys_2d_poly and conspy_2d_poly_prj for
\* CONSPY; wwpt_by_xs with its subsets, wwpt_merge, xsln_temp and (CONSPY)
\* conspys_2d_poly_temp, conspys_2d_line and conspys_3d are gone.
C17_NoTempAtCompletion ==
    CleanupSucceeded =>
        /\ script = "SWL" =>
               /\ DOMAIN gdb = {pointfile, pointfile_copy}
               /\ \A name \in {wwpt_by_xs_fd, wwpt_merge, xsln_temp} : ~Exists(name)
        /\ script = "CONSPY" =>
               /\ DOMAIN gdb = {polygon_file, polygon_file_copy1}
               /\ \A name \in {xsln_temp, temp_polygon_file, wwpt_by_xs_fd, wwpt_merge,
                                 polylinefile_2d, polylinefile_3d} : ~Exists(name)
        /\ \A name \in DOMAIN gdb : \A id \in XsIds : name # wwpt_by_xs_file(id)

C17_Witness ==
    /\ pc = "done" /\ CleanupSucceeded /\ script = "CONSPY"
    /\ "completed" \in messages
    /\ DOMAIN gdb = {polygon_file, polygon_file_copy1}
    /\ Len(gdb[polygon_file]) = 2 /\ Len(gdb[polygon_file_copy1]) = 2

\* the warning of the except clause of the cleanup step has been printed
CleanupWarning == "warning: unable to delete all temporary files" \in messages
Completed == "completed" \in messages
\* the datasets a run delivers
Outputs ==
    IF script = "SWL" THEN {pointfile, pointfile_copy}
                      ELSE {polygon_file, polygon_file_copy1}

\* C18: a failing delete of the cleanup step is not fatal.  The step is left
\* only toward the completion message, which every run that reaches the step
\* prints, with or without the warning; the warning is printed by a step that
\* changes nothing in the workspace; the outputs are the same before and
\* after the step; and once the warning is printed the datasets before the
\* failing delete are gone while that dataset and all later ones of the list
\* are still in the workspace.
C18_CleanupFailureNotFatal ==
    /\ [](CleanupWarning =>
             /\ pc \in {"complete", "done"}
             /\ i \in DOMAIN TempFiles
             /\ \A j \in 1..(i - 1) : ~Exists(TempFiles[j])
             /\ \A j \in i..Len(TempFiles) : Exists(TempFiles[j])
             /\ \A name \in Outputs : Exists(name))
    /\ [][pc = "cleanup" => pc' \in {"cleanup", "complete"}]_vars
    /\ [][(~CleanupWarning /\ CleanupWarning') =>
              (pc = "cleanup" /\ pc' = "complete" /\ gdb' = gdb)]_vars
    /\ [][(pc = "cleanup" \/ pc = "complete") =>
              (\A name \in Outputs : Exists(name) /\ gdb'[name] = gdb[name])]_vars
    /\ (pc = "cleanup") ~> Completed
    /\ CleanupWarning ~> (Completed /\ CleanupWarning)

C18_Witness ==
    /\ pc = "done" /\ script = "CONSPY"
    /\ CleanupWarning /\ Completed
    /\ i = 3
    /\ ~Exists(xsln_temp) /\ ~Exists(temp_polygon_file)
    /\ Exists(wwpt_by_xs_fd) /\ Exists(wwpt_merge)
    /\ Exists(polylinefile_2d) /\ Exists(polylinefile_3d)
    /\ Len(gdb[polygon_file]) = 2 /\ Len(gdb[polygon_file_copy1]) = 2

=============================================================================
